---- MODULE Spec2Model ----
(***************************************************************************)
(* Model of edythe (src/src/main.rs): a Buffer (path + data) owned by an   *)
(* Editor owned by a Tui that runs the blocking read -> interpret -> draw  *)
(* loop between entering and leaving the terminal modes.                   *)
(*                                                                         *)
(* A char is its Unicode code point, a String a sequence of chars, a file  *)
(* a sequence of bytes; as_bytes / read_to_string are the UTF-8 encoding   *)
(* and decoding.  The environment (file system calls, terminal calls, the  *)
(* input events) is nondeterministic: every call that returns a Result in  *)
(* the source may fail.                                                    *)
(***************************************************************************)
EXTENDS Integers, Sequences, FiniteSets, TLC

\* ---------------------------------------------------------------- bounds
\* number of character insertions in one run
MaxInserts == 2
\* length (in chars) of the text of the file found at startup
MaxFileLen == 1
\* capacity of the BufWriter in save_to_disk, in bytes (std: 8 KiB), scaled
BufCapacity == 3
\* size of the terminal, in columns and rows
TermCols == 2
TermRows == 2
\* length (in chars) of the contents drawn in SpecDraw
MaxDrawLen == 4

\* ------------------------------------------------------------ characters
LF == 10
CR == 13
\* chars a key press can carry: 'c', 's' and a two-byte char (U+00E9)
KeyChars == {99, 115, 233}
\* chars of the text found in the file at startup
FileChars == {LF, 99, 233}

\* str::as_bytes of one char: its UTF-8 encoding
Utf8(c) ==
    IF c < 128 THEN <<c>>
    ELSE IF c < 2048 THEN <<192 + (c \div 64), 128 + (c % 64)>>
    ELSE <<224 + (c \div 4096), 128 + ((c \div 64) % 64), 128 + (c % 64)>>

RECURSIVE Encode(_)
\* self.buffer.data.as_bytes()
Encode(s) == IF s = <<>> THEN <<>> ELSE Utf8(Head(s)) \o Encode(Tail(s))

RECURSIVE Decode(_)
\* String::from_utf8 as read_to_string applies it: the chars of a valid
\* UTF-8 byte sequence, or failure
Decode(b) ==
    IF b = <<>> THEN [ok |-> TRUE, text |-> <<>>]
    ELSE IF b[1] < 128
         THEN LET r == Decode(Tail(b))
              IN  [ok |-> r.ok, text |-> IF r.ok THEN <<b[1]>> \o r.text ELSE <<>>]
    ELSE IF b[1] >= 194 /\ b[1] <= 223 /\ Len(b) >= 2 /\ b[2] >= 128 /\ b[2] <= 191
         THEN LET r == Decode(Tail(Tail(b)))
                  c == (b[1] - 192) * 64 + (b[2] - 128)
              IN  [ok |-> r.ok, text |-> IF r.ok THEN <<c>> \o r.text ELSE <<>>]
    ELSE IF b[1] >= 224 /\ b[1] <= 239 /\ Len(b) >= 3
            /\ b[2] >= 128 /\ b[2] <= 191 /\ b[3] >= 128 /\ b[3] <= 191
            /\ (b[1] - 224) * 4096 + (b[2] - 128) * 64 + (b[3] - 128) >= 2048
         THEN LET r == Decode(Tail(Tail(Tail(b))))
                  c == (b[1] - 224) * 4096 + (b[2] - 128) * 64 + (b[3] - 128)
              IN  [ok |-> r.ok, text |-> IF r.ok THEN <<c>> \o r.text ELSE <<>>]
    ELSE [ok |-> FALSE, text |-> <<>>]

Prefix(s, n) == SubSeq(s, 1, n)

\* ------------------------------------------------------------ file system
\* the file at the path of interest: absent, or present with its bytes
NoFile == [exists |-> FALSE, bytes |-> <<>>]
FileOf(b) == [exists |-> TRUE, bytes |-> b]

Texts(n) == UNION {[1..k -> FileChars] : k \in 0..n}

\* the files the editor can find at startup: none, a text file, or a file
\* that is not valid UTF-8 (a lone lead byte)
InitialFiles ==
    {NoFile} \cup {FileOf(Encode(t)) : t \in Texts(MaxFileLen)} \cup {FileOf(<<195>>)}

\* ------------------------------------------------------------------ state
VARIABLES
    pc,         \* position of the process in main / Tui::run
    buffer,     \* Buffer: [path, data]
    file,       \* the file system at the path of interest
    raw,        \* terminal: raw mode enabled
    alt,        \* terminal: alternate screen active
    screen,     \* the cells of the alternate screen: screen[row][col] is a
                \* char, or 0 for a blank cell
    out,        \* the commands queued on self.out and not yet flushed
    lastEvent,  \* what the last event::read() returned: an event, or
                \* NoEvent (no read yet, or the read failed)
    saveHist,   \* history: outcomes of the last two save_to_disk calls made
                \* since the last insert / delete-last
    hist        \* history: counters and the startup state

vars == <<pc, buffer, file, raw, alt, screen, out, lastEvent, saveHist, hist>>

\* BufferPath
PathFile == [tag |-> "File", id |-> 0]
PathTemp == [tag |-> "Temp", id |-> 0]


\* ----------------------------------------------------------------- Buffer
\* Buffer::new
BufferNew(path, data) == [path |-> path, data |-> data]

\* append_char that builds a new Unsaved buffer
append_char_retag(b, c) == [path |-> [tag |-> "Temp", id |-> 0], data |-> Append(b.data, c)]

\* append_char that puts the char in front
append_char_front(b, c) == [b EXCEPT !.data = <<c>> \o @]

\* Buffer::append_char: String::push
append_char(b, c) == [b EXCEPT !.data = Append(@, c)]

\* delete_char_from_end that empties the string instead of popping one char
delete_char_from_end_clear(b) == [b EXCEPT !.data = <<>>]

\* Buffer::delete_char_from_end: String::pop unless the data is empty
delete_char_from_end(b) ==
    IF b.data # <<>> THEN [b EXCEPT !.data = SubSeq(@, 1, Len(@) - 1)] ELSE b

\* ----------------------------------------------------------------- Editor
\* Editor::insert_char
insert_char(b, c) == append_char(b, c)

\* Editor::delete_last_char
delete_last_char(b) == delete_char_from_end(b)

\* save_to_disk that writes whatever the path is
save_to_disk_anypath(b, f) ==
    LET bytes == Encode(b.data)
    IN  {[result |-> "Ok", file |-> FileOf(bytes), created |-> TRUE,
          written |-> Len(bytes), total |-> Len(bytes)]}

\* Editor::save_to_disk: the outcomes of one call, for every behaviour of
\* the file system.  result is what the caller gets; file is the file
\* afterwards; created / written / total record what the calls did.
\*   Temp path: nothing is done, Ok.
\*   File::create fails: `?` returns the error, the file is untouched.
\*   File::create succeeds: the file exists and is empty.  BufWriter::write
\*   keeps the bytes in its buffer when they are fewer than its capacity and
\*   returns Ok; the bytes reach the file when the BufWriter is dropped, and
\*   an error of that flush is ignored, leaving the n bytes written so far.
\*   With at least `capacity` bytes, BufWriter::write passes them to a
\*   single File::write, which returns an error (`?` returns it) or Ok(n)
\*   for the n bytes it took; n is not looked at.
save_to_disk(b, f) ==
    IF b.path.tag = "File"
    THEN LET bytes == Encode(b.data)
             total == Len(bytes)
         IN  {[result |-> "Err", file |-> f, created |-> FALSE,
               written |-> 0, total |-> total]}
             \cup
             {[result |-> "Ok", file |-> FileOf(Prefix(bytes, n)), created |-> TRUE,
               written |-> n, total |-> total] : n \in 0..total}
             \cup
             (IF total >= BufCapacity
              THEN {[result |-> "Err", file |-> FileOf(<<>>), created |-> TRUE,
                     written |-> 0, total |-> total]}
              ELSE {})
    ELSE {[result |-> "Ok", file |-> f, created |-> FALSE,
           written |-> 0, total |-> 0]}

\* ------------------------------------------------------------------- main
\* main: the Buffer built from the command line and the file system.
\* read_to_string fails when the file is absent, cannot be read (readOk
\* is FALSE) or is not valid UTF-8; unwrap_or_default turns that into "".
MainBuffer(hasArg, f, readOk) ==
    IF hasArg
    THEN LET d == Decode(f.bytes)
         IN  BufferNew(PathFile, IF f.exists /\ readOk /\ d.ok THEN d.text ELSE <<>>)
    ELSE BufferNew(PathTemp, <<>>)

\* ----------------------------------------------------------------- events
Modifiers == {"CONTROL", "ALT"}
Char(c) == [kind |-> "Char", c |-> c]
Backspace == [kind |-> "Backspace", c |-> 0]
Esc == [kind |-> "Esc", c |-> 0]
NoCode == [kind |-> "None", c |-> 0]
KeyCodes == {Char(c) : c \in KeyChars} \cup {Backspace, Esc}

\* the key events read: a char with any modifier flags, Backspace alone
\* and with Control, Esc alone
KeyEvents ==
    [type : {"Key"}, code : {Char(c) : c \in KeyChars}, modifiers : SUBSET Modifiers]
        \cup [type : {"Key"}, code : {Backspace}, modifiers : {{}, {"CONTROL"}}]
        \cup [type : {"Key"}, code : {Esc}, modifiers : {{}}]
OtherEvents == [type : {"Resize", "Mouse", "FocusGained"}, code : {NoCode}, modifiers : {{}}]
Events == KeyEvents \cup OtherEvents
NoEvent == [type |-> "None", code |-> NoCode, modifiers |-> {}]

\* match_keyevent whose Control + c arm saves before it quits
MatchArm_savequit(key) ==
    IF key.code \in {Char(99), Char(115)} /\ key.modifiers = {"CONTROL"} THEN "Save"
    ELSE IF key.code.kind = "Backspace" THEN "Backspace"
    ELSE IF key.code.kind = "Char" THEN "Insert"
    ELSE "Continue"

\* Tui::match_keyevent: the arm of the match that takes the key event,
\* first match first.  A pattern `modifiers: KeyModifiers::CONTROL` matches
\* the value CONTROL, that is, the Control flag and no other flag.
MatchArm(key) ==
    IF key.code = Char(99) /\ key.modifiers = {"CONTROL"} THEN "Quit"
    ELSE IF key.code = Char(115) /\ key.modifiers = {"CONTROL"} THEN "Save"
    ELSE IF key.code.kind = "Backspace" THEN "Backspace"
    ELSE IF key.code.kind = "Char" THEN "Insert"
    ELSE "Continue"

\* match_keyevent that returns Continue after a save
ArmResult_savecontinue(arm) ==
    IF arm = "Quit" THEN "Quit"
    ELSE IF arm \in {"Continue", "Save"} THEN "Continue"
    ELSE "Edited"

\* match_keyevent that returns Continue after a delete-last
ArmResult_backspacecontinue(arm) ==
    IF arm = "Quit" THEN "Quit"
    ELSE IF arm \in {"Continue", "Backspace"} THEN "Continue"
    ELSE "Edited"

\* Tui::match_keyevent: the EditorEvent an arm returns
ArmResult(arm) ==
    IF arm = "Quit" THEN "Quit"
    ELSE IF arm = "Continue" THEN "Continue"
    ELSE "Edited"

\* Tui::read_input: the arm taken for an event; every event that is not a
\* key event is Continue
InputArm(e) == IF e.type = "Key" THEN MatchArm(e) ELSE "Continue"

\* run that leaves the alternate screen right after the loop
LoopNext_skipraw(r) ==
    IF r = "Continue" THEN "read"
    ELSE IF r = "Quit" THEN "leave_alt"
    ELSE "draw"

\* run that redraws after every event but Quit
LoopNext_redrawall(r) ==
    IF r = "Quit" THEN "disable_raw"
    ELSE "draw"

\* run that breaks out of the loop on Continue as well
LoopNext_breakcontinue(r) ==
    IF r \in {"Continue", "Quit"} THEN "disable_raw"
    ELSE "draw"

\* Tui::run, the match of the loop: where the EditorEvent leads
LoopNext(r) ==
    IF r = "Continue" THEN "read"
    ELSE IF r = "Quit" THEN "disable_raw"
    ELSE "draw"

RECURSIVE SplitLF(_)
\* the pieces of s between line feeds; a trailing line feed ends the last
\* line and starts no new one
SplitLF(s) ==
    IF s = <<>> THEN <<>>
    ELSE LET i == CHOOSE k \in 1..(Len(s) + 1) :
                    /\ k = Len(s) + 1 \/ s[k] = LF
                    /\ \A j \in 1..(k - 1) : s[j] # LF
         IN  IF i > Len(s) THEN <<s>>
             ELSE <<SubSeq(s, 1, i - 1)>> \o SplitLF(SubSeq(s, i + 1, Len(s)))

StripCR(l) == IF l # <<>> /\ l[Len(l)] = CR THEN SubSeq(l, 1, Len(l) - 1) ELSE l

\* str::lines
Lines(s) == [i \in 1..Len(SplitLF(s)) |-> StripCR(SplitLF(s)[i])]

\* --------------------------------------------------------------- terminal
\* the terminal that executes the commands of draw: a grid of cells and a
\* cursor (row, col, and the pending wrap after a char in the last column)
BlankRow == [c \in 1..TermCols |-> 0]
BlankGrid == [r \in 1..TermRows |-> BlankRow]
HomeTerm(g) == [grid |-> g, row |-> 1, col |-> 1, wrap |-> FALSE]

\* the rows move up by one, the top row is lost
ScrollUp(g) == [r \in 1..TermRows |-> IF r < TermRows THEN g[r + 1] ELSE BlankRow]

\* terminal::Clear(ClearType::All): every cell is blank
ClearAll(t) == [t EXCEPT !.grid = BlankGrid]

\* cursor::MoveTo(0, 0)
MoveTo00(t) == [t EXCEPT !.row = 1, !.col = 1, !.wrap = FALSE]

\* cursor::MoveToNextLine(1): column 0 of the next row; on the last row
\* the cursor stays on it
MoveToNextLine(t) ==
    [t EXCEPT !.row = IF @ < TermRows THEN @ + 1 ELSE @, !.col = 1, !.wrap = FALSE]

\* one char of a Print: a carriage return moves to column 0; any other
\* char is put at the cursor, after the pending wrap to the next row (the
\* screen scrolls on the last row)
PutChar(t, ch) ==
    IF ch = CR THEN [t EXCEPT !.col = 1, !.wrap = FALSE]
    ELSE LET t1 == IF ~t.wrap THEN t
                   ELSE IF t.row = TermRows
                        THEN [t EXCEPT !.grid = ScrollUp(@), !.col = 1, !.wrap = FALSE]
                        ELSE [t EXCEPT !.row = @ + 1, !.col = 1, !.wrap = FALSE]
         IN  [t1 EXCEPT !.grid[t1.row][t1.col] = ch,
                        !.col = IF @ = TermCols THEN @ ELSE @ + 1,
                        !.wrap = (t1.col = TermCols)]

RECURSIVE PrintText(_, _)
\* style::Print(line)
PrintText(t, s) == IF s = <<>> THEN t ELSE PrintText(PutChar(t, Head(s)), Tail(s))

\* the commands draw queues
CmdClear == [op |-> "Clear", text |-> <<>>]
CmdMoveTo == [op |-> "MoveTo", text |-> <<>>]
CmdNextLine == [op |-> "MoveToNextLine", text |-> <<>>]
CmdPrint(s) == [op |-> "Print", text |-> s]

Exec(t, cmd) ==
    CASE cmd.op = "Clear" -> ClearAll(t)
      [] cmd.op = "MoveTo" -> MoveTo00(t)
      [] cmd.op = "MoveToNextLine" -> MoveToNextLine(t)
      [] OTHER -> PrintText(t, cmd.text)

RECURSIVE ExecAll(_, _)
ExecAll(t, cmds) == IF cmds = <<>> THEN t ELSE ExecAll(Exec(t, Head(cmds)), Tail(cmds))

RECURSIVE RestLines(_, _)
\* draw, the for loop: MoveToNextLine(1) and Print for the lines from i on
RestLines(ls, i) ==
    IF i > Len(ls) THEN <<>>
    ELSE <<CmdNextLine, CmdPrint(ls[i])>> \o RestLines(ls, i + 1)

\* draw without the Clear
DrawCommands_noclear(data) ==
    LET ls == Lines(data)
    IN  <<CmdMoveTo, CmdPrint(IF ls = <<>> THEN <<>> ELSE ls[1])>> \o RestLines(ls, 2)

\* Tui::draw, the queue! calls: Clear(All), MoveTo(0, 0), Print of the
\* first line (or ""), then MoveToNextLine(1) + Print for every other line
DrawCommands(data) ==
    LET ls == Lines(data)
    IN  <<CmdClear, CmdMoveTo, CmdPrint(IF ls = <<>> THEN <<>> ELSE ls[1])>>
            \o RestLines(ls, 2)

\* self.out.flush(): the terminal executes the first k queued commands,
\* the others stay queued (k is all of them when the flush succeeds)
Flush(o, scr, k) ==
    [out |-> SubSeq(o, k + 1, Len(o)),
     screen |-> ExecAll(HomeTerm(scr), SubSeq(o, 1, k)).grid]

\* what a completed draw of data shows
DrawnScreen(data) ==
    Flush(DrawCommands(data), BlankGrid, Len(DrawCommands(data))).screen


\* ------------------------------------------------------------------- Init
\* the state when main calls tui.run(): the Buffer is built (main), the
\* Editor and the Tui own it, the terminal is as the shell left it
Init ==
    \E hasArg \in BOOLEAN, f \in InitialFiles, readOk \in BOOLEAN :
        /\ ~readOk => hasArg /\ f.exists
        /\ pc = "enter_alt"
        /\ buffer = MainBuffer(hasArg, f, readOk)
        /\ file = f
        /\ raw = FALSE
        /\ alt = FALSE
        /\ screen = BlankGrid
        /\ out = <<>>
        /\ lastEvent = NoEvent
        /\ saveHist = <<>>
        /\ hist = [hasArg |-> hasArg, file0 |-> f, readOk |-> readOk,
                   data0 |-> MainBuffer(hasArg, f, readOk).data,
                   inserts |-> 0, deletes |-> 0,
                   drawn |-> [done |-> FALSE, data |-> <<>>],
                   altEnters |-> 0, rawEnables |-> 0,
                   rawDisables |-> 0, altLeaves |-> 0]

\* a panic: `unwrap` / `expect` on an Err.  The process unwinds out of
\* Tui::run and main and ends; no code of run runs after it.
Panic ==
    /\ pc' = "panicked"

\* ---------------------------------------------------------------- actions
\* run that goes on to enable_raw_mode without entering the alternate screen
EnterAlternateScreen_skip ==
    /\ pc = "enter_alt"
    /\ pc' = "enable_raw"
    /\ UNCHANGED <<buffer, file, raw, alt, screen, out, lastEvent, saveHist, hist>>

\* run: execute!(EnterAlternateScreen).unwrap()
EnterAlternateScreen ==
    /\ pc = "enter_alt"
    /\ \/ /\ alt' = TRUE
          /\ hist' = [hist EXCEPT !.altEnters = @ + 1]
          /\ pc' = "enable_raw"
       \/ /\ Panic
          /\ UNCHANGED <<alt, hist>>
    /\ UNCHANGED <<buffer, file, raw, screen, out, lastEvent, saveHist>>

\* run: terminal::enable_raw_mode().unwrap()
EnableRawMode ==
    /\ pc = "enable_raw"
    /\ \/ /\ raw' = TRUE
          /\ hist' = [hist EXCEPT !.rawEnables = @ + 1]
          /\ pc' = "first_draw"
       \/ /\ Panic
          /\ UNCHANGED <<raw, hist>>
    /\ UNCHANGED <<buffer, file, alt, screen, out, lastEvent, saveHist>>

\* draw, called by run before the loop and after an Edited event: the
\* commands are queued and flushed.  Every queue! and the flush are
\* unwrapped: when writing to the terminal fails, the commands before the
\* failure were executed and draw panics.  hist.drawn is the content of the
\* last completed draw.
Draw ==
    /\ pc \in {"first_draw", "draw"}
    /\ LET q == out \o DrawCommands(buffer.data)
       IN  \/ /\ screen' = Flush(q, screen, Len(q)).screen
              /\ out' = Flush(q, screen, Len(q)).out
              /\ hist' = [hist EXCEPT !.drawn = [done |-> TRUE, data |-> buffer.data]]
              /\ pc' = "read"
           \/ \E k \in 0..(Len(q) - 1) :
                /\ screen' = Flush(q, screen, k).screen
                /\ out' = Flush(q, screen, k).out
                /\ Panic
                /\ UNCHANGED hist
    /\ UNCHANGED <<buffer, file, raw, alt, lastEvent, saveHist>>

\* the history of the saves made since the last insert / delete-last
PushSave(h, o) == IF Len(h) < 2 THEN Append(h, o) ELSE <<h[2], o>>

\* read_input + match_keyevent for a key event taken by the save arm:
\* save_to_disk().expect(..), then Edited
KeySave(e) ==
    \E o \in save_to_disk(buffer, file) :
        /\ file' = o.file
        /\ saveHist' = PushSave(saveHist, o)
        /\ IF o.result = "Ok" THEN pc' = LoopNext(ArmResult("Save")) ELSE Panic
        /\ UNCHANGED <<buffer, hist>>

\* ... by the Backspace arm: delete_last_char, then Edited
KeyBackspace(e) ==
    /\ buffer' = delete_last_char(buffer)
    /\ hist' = [hist EXCEPT !.deletes = IF buffer.data # <<>> THEN @ + 1 ELSE @]
    /\ saveHist' = <<>>
    /\ pc' = LoopNext(ArmResult("Backspace"))
    /\ UNCHANGED file

\* ... by the Char(c) arm: insert_char(c), then Edited
KeyInsert(e) ==
    /\ hist.inserts < MaxInserts
    /\ buffer' = insert_char(buffer, e.code.c)
    /\ hist' = [hist EXCEPT !.inserts = @ + 1]
    /\ saveHist' = <<>>
    /\ pc' = LoopNext(ArmResult("Insert"))
    /\ UNCHANGED file

\* ... by an arm that only returns (Quit, Continue), and every event that
\* is not a key event
KeyReturn(e) ==
    /\ pc' = LoopNext(ArmResult(InputArm(e)))
    /\ UNCHANGED <<buffer, file, saveHist, hist>>

\* run: one turn of the loop up to the match on the EditorEvent:
\* event::read().unwrap() returns e, read_input / match_keyevent handle it
ReadInput ==
    /\ pc = "read"
    /\ \E e \in Events :
        /\ lastEvent' = e
        /\ CASE InputArm(e) = "Save" -> KeySave(e)
             [] InputArm(e) = "Backspace" -> KeyBackspace(e)
             [] InputArm(e) = "Insert" -> KeyInsert(e)
             [] OTHER -> KeyReturn(e)
    /\ UNCHANGED <<raw, alt, screen, out>>

\* read_input: event::read() returns an error, unwrap panics
ReadFail ==
    /\ pc = "read"
    /\ Panic
    /\ lastEvent' = NoEvent
    /\ UNCHANGED <<buffer, file, raw, alt, screen, out, saveHist, hist>>

\* run, after the loop: terminal::disable_raw_mode().unwrap()
DisableRawMode ==
    /\ pc = "disable_raw"
    /\ \/ /\ raw' = FALSE
          /\ hist' = [hist EXCEPT !.rawDisables = @ + 1]
          /\ pc' = "leave_alt"
       \/ /\ Panic
          /\ UNCHANGED <<raw, hist>>
    /\ UNCHANGED <<buffer, file, alt, screen, out, lastEvent, saveHist>>

\* run: execute!(LeaveAlternateScreen).unwrap(), then run and main return
LeaveAlternateScreen ==
    /\ pc = "leave_alt"
    /\ \/ /\ alt' = FALSE
          /\ hist' = [hist EXCEPT !.altLeaves = @ + 1]
          /\ pc' = "done"
       \/ /\ Panic
          /\ UNCHANGED <<alt, hist>>
    /\ UNCHANGED <<buffer, file, raw, screen, out, lastEvent, saveHist>>

Next ==
    \/ EnterAlternateScreen
    \/ EnableRawMode
    \/ Draw
    \/ ReadInput
    \/ ReadFail
    \/ DisableRawMode
    \/ LeaveAlternateScreen

Spec == Init /\ [][Next]_vars

\* ----------------------------------------------------------- draw alone
\* chars of the contents drawn: line feed, carriage return, 'c', U+00E9
DrawChars == {LF, CR, 99, 233}
DrawTexts == UNION {[1..k -> DrawChars] : k \in 0..MaxDrawLen}

\* the loop about to redraw: the file held t followed by ch, the first
\* draw showed it, Backspace removed ch and returned Edited
InitDraw ==
    \E t \in DrawTexts, ch \in DrawChars :
        /\ pc = "draw"
        /\ buffer = BufferNew(PathFile, t)
        /\ file = FileOf(Encode(Append(t, ch)))
        /\ raw = TRUE
        /\ alt = TRUE
        /\ screen = DrawnScreen(Append(t, ch))
        /\ out = <<>>
        /\ lastEvent = [type |-> "Key", code |-> Backspace, modifiers |-> {}]
        /\ saveHist = <<>>
        /\ hist = [hasArg |-> TRUE, file0 |-> FileOf(Encode(Append(t, ch))),
                   readOk |-> TRUE, data0 |-> Append(t, ch),
                   inserts |-> 0, deletes |-> 1,
                   drawn |-> [done |-> TRUE, data |-> Append(t, ch)],
                   altEnters |-> 1, rawEnables |-> 1,
                   rawDisables |-> 0, altLeaves |-> 0]

NextDraw == Draw

SpecDraw == InitDraw /\ [][NextDraw]_vars


\* ================================================================ claims
IsFileBacked == buffer.path.tag = "File"
LastSave == saveHist[Len(saveHist)]
\* a save_to_disk call whose file creation or write did not go through
SaveFailed(o) == ~o.created \/ o.written < o.total
\* the step reads event e (and is no stuttering step)
Reads(e) == pc = "read" /\ lastEvent' = e /\ (lastEvent # e \/ pc' # "read")
QuitKey == [type |-> "Key", code |-> Char(99), modifiers |-> {"CONTROL"}]
SaveKey == [type |-> "Key", code |-> Char(115), modifiers |-> {"CONTROL"}]
BackspaceKeys == {e \in KeyEvents : e.code = Backspace}

\* C1 (as claimed): whenever run has stopped, by returning or by a panic,
\* raw mode is disabled and the alternate screen has been left.
C1_ModesRestoredOnEveryExit ==
    pc \in {"done", "panicked"} => ~raw /\ ~alt

\* C2: the buffer length is the startup length plus the inserts minus the
\* deletes applied to a non-empty buffer (from an empty buffer: inserts
\* minus deletes), never negative; a delete-last on an empty buffer leaves
\* the buffer unchanged and is no error (the loop goes on to redraw).
C2_LengthIsInsertsMinusDeletes ==
    /\ [](/\ Len(buffer.data) = Len(hist.data0) + hist.inserts - hist.deletes
          /\ hist.data0 = <<>> => Len(buffer.data) = hist.inserts - hist.deletes
          /\ Len(buffer.data) >= 0)
    /\ [][\A e \in BackspaceKeys :
            Reads(e) /\ buffer.data = <<>> =>
                buffer' = buffer /\ pc' = "draw" /\ hist'.deletes = hist.deletes]_vars

\* C2 witness: a delete-last on the empty buffer of a run without file
\* argument was handled and the loop goes on to the redraw
C2_Witness ==
    /\ ~hist.hasArg /\ hist.inserts = 0 /\ hist.deletes = 0
    /\ lastEvent \in BackspaceKeys /\ pc = "draw" /\ buffer.data = <<>>

\* C3 (as claimed): after a save_to_disk that returned Ok on a file-backed
\* buffer the file holds exactly the bytes of the content, and reading it
\* back gives the buffer text.
C3_SavedFileIsContent ==
    (IsFileBacked /\ saveHist # <<>> /\ LastSave.result = "Ok") =>
        /\ file = FileOf(Encode(buffer.data))
        /\ Decode(file.bytes) = [ok |-> TRUE, text |-> buffer.data]

\* C4 (as claimed): save_to_disk on a file-backed buffer never returns Ok
\* when the creation failed or not all bytes of the content were written.
C4_FailureIsReported ==
    \A i \in 1..Len(saveHist) :
        (IsFileBacked /\ SaveFailed(saveHist[i])) => saveHist[i].result = "Err"

\* C5: without a file argument the identity is Unsaved, no save creates,
\* truncates or writes the file, and every save returns Ok.
C5_UnsavedNeverWrites ==
    ~hist.hasArg =>
        /\ buffer.path = PathTemp
        /\ file = hist.file0
        /\ \A i \in 1..Len(saveHist) :
                saveHist[i].result = "Ok" /\ ~saveHist[i].created
                    /\ saveHist[i].file = hist.file0

\* C5 witness: two saves of a non-empty Unsaved buffer
C5_Witness ==
    /\ ~hist.hasArg /\ buffer.path = PathTemp
    /\ Len(saveHist) = 2 /\ buffer.data # <<>> /\ lastEvent = SaveKey

\* C6: Control + c read in the loop ends the loop and changes neither the
\* file nor the buffer, and neither does the shutdown after it.
C6_QuitDoesNotSave ==
    [][/\ Reads(QuitKey) =>
            pc' = "disable_raw" /\ file' = file /\ buffer' = buffer
                /\ saveHist' = saveHist
       /\ pc \in {"disable_raw", "leave_alt"} =>
            file' = file /\ buffer' = buffer /\ saveHist' = saveHist]_vars

\* C6 witness: the run ended by Control + c with content that differs
\* from the file
C6_Witness ==
    /\ pc = "done" /\ lastEvent = QuitKey
    /\ IsFileBacked /\ buffer.data # <<>>
    /\ file # FileOf(Encode(buffer.data))

\* C7 (as claimed): a save from the loop whose creation or write failed
\* ends the process: the loop is not resumed.
C7_FailedSaveIsFatal ==
    \A i \in 1..Len(saveHist) :
        (IsFileBacked /\ SaveFailed(saveHist[i])) => pc = "panicked"

\* C8: after the loop raw mode is disabled first and the alternate screen
\* left second, each once; the alternate screen is never left while raw mode
\* is enabled, and when run returns both have happened.
C8_ShutdownOrder ==
    /\ hist.rawDisables <= 1 /\ hist.altLeaves <= 1
    /\ hist.altLeaves = 1 => hist.rawDisables = 1 /\ ~raw
    /\ pc = "leave_alt" => hist.rawDisables = 1 /\ hist.altLeaves = 0 /\ ~raw /\ alt
    /\ pc = "done" => hist.rawDisables = 1 /\ hist.altLeaves = 1 /\ ~raw /\ ~alt
    /\ pc \in {"disable_raw", "leave_alt", "done"} => lastEvent = QuitKey

\* C8 witness: run returned after the loop
C8_Witness == pc = "done" /\ hist.rawEnables = 1 /\ hist.altEnters = 1

\* C9 (as claimed): two saves in a row that both return Ok, with no insert
\* or delete-last in between, leave the same file.
C9_SaveIdempotent ==
    (/\ IsFileBacked /\ Len(saveHist) = 2
     /\ saveHist[1].result = "Ok" /\ saveHist[2].result = "Ok") =>
        saveHist[1].file = saveHist[2].file

\* C10 (as claimed): with a file argument whose file is missing or cannot
\* be read the buffer starts empty and file-backed, and the first save that
\* returns Ok leaves the file with exactly the content.  For a missing file
\* the first save that returns Ok is the one that finds no file.
C10_MissingFileStartsEmpty ==
    /\ []((hist.hasArg /\ (~hist.file0.exists \/ ~hist.readOk
                                \/ ~Decode(hist.file0.bytes).ok)) =>
            hist.data0 = <<>> /\ buffer.path = PathFile)
    /\ [][(hist.hasArg /\ ~file.exists /\ Reads(SaveKey) /\ pc' = "draw") =>
            file' = FileOf(Encode(buffer.data))]_vars


\* C11: the identity of the buffer is the one fixed at creation (FilePath
\* with a file argument, Unsaved without) in every state, and no step
\* changes it.
C11_IdentityNeverChanges ==
    /\ [](buffer.path = IF hist.hasArg THEN PathFile ELSE PathTemp)
    /\ [][buffer'.path = buffer.path]_vars

\* C11 witness: a run with inserts, a delete-last, a save, draws and Quit
C11_Witness ==
    /\ pc = "done" /\ IsFileBacked
    /\ hist.inserts >= 1 /\ hist.deletes >= 1 /\ saveHist # <<>>

\* the picture C12 describes: the char at position p of the content is in
\* the row given by the line feeds before p and in the column given by its
\* distance from the last of them; every other cell is blank
LineOf(s, p) == Cardinality({j \in 1..(p - 1) : s[j] = LF}) + 1
ColumnOf(s, p) ==
    p - (CHOOSE m \in 0..(p - 1) :
            /\ m = 0 \/ s[m] = LF
            /\ \A j \in (m + 1)..(p - 1) : s[j] # LF)
ExpectedCell(s, r, c) ==
    LET ps == {p \in 1..Len(s) : s[p] # LF /\ LineOf(s, p) = r /\ ColumnOf(s, p) = c}
    IN  IF ps = {} THEN 0 ELSE s[CHOOSE p \in ps : TRUE]
ShowsExactly(s) ==
    \A r \in 1..TermRows, c \in 1..TermCols : screen[r][c] = ExpectedCell(s, r, c)
\* the content is made of printing chars and line feeds
Printable(s) == \A p \in 1..Len(s) : s[p] # CR
\* every char of the content falls inside the terminal
Fits(s) ==
    \A p \in 1..Len(s) :
        s[p] # LF => LineOf(s, p) <= TermRows /\ ColumnOf(s, p) <= TermCols

\* C12 (as claimed): after a draw of any content of printing chars and line
\* feeds the screen shows line i from column 0 of row i and nothing else,
\* and nothing is left unflushed.
C12_DrawPlacesEveryLine ==
    (pc = "read" /\ Printable(buffer.data)) =>
        ShowsExactly(buffer.data) /\ out = <<>>

\* C12 (amended): the same for a content of which every char falls inside
\* the terminal: each line no longer than the terminal is wide, and no char
\* on a line beyond the last row.
C12_DrawPlacesFittingLines ==
    (pc = "read" /\ Printable(buffer.data) /\ Fits(buffer.data)) =>
        ShowsExactly(buffer.data) /\ out = <<>>

\* C12 witness: a drawn content of two non-empty lines that fit, over a
\* previous frame that showed one char more
C12_Witness ==
    /\ pc = "read" /\ Printable(buffer.data) /\ Fits(buffer.data)
    /\ Len(buffer.data) = 3 /\ buffer.data[2] = LF
    /\ buffer.data[1] # LF /\ buffer.data[3] # LF
    /\ hist.drawn = [done |-> TRUE, data |-> buffer.data]
    /\ hist.data0 # buffer.data /\ Printable(hist.data0)


Drawn(data) == [done |-> TRUE, data |-> data]
\* events that are no key press, and key presses that match no arm
IgnoredEvents == OtherEvents \cup {e \in KeyEvents : e.code = Esc}

\* C13: after an event the loop goes to a redraw exactly when the event
\* was interpreted as Edited; resize, mouse, other events and key presses
\* that match no arm leave buffer, file and screen unchanged with the loop
\* reading again; the screen changes in a draw only.
C13_RedrawIffEdited ==
    [][/\ \A e \in Events :
            ((Reads(e) /\ pc' # "panicked") =>
                (pc' = "draw" <=> ArmResult(InputArm(e)) = "Edited"))
       /\ \A e \in IgnoredEvents :
            (Reads(e) => pc' = "read" /\ UNCHANGED <<buffer, file, screen, out, hist>>)
       /\ ((screen' # screen \/ hist'.drawn # hist.drawn) =>
            pc \in {"first_draw", "draw"})]_vars

\* C13 witness: the loop reads again after a resize that followed an edit,
\* the screen still showing the draw made after the edit
C13_Witness ==
    /\ pc = "read" /\ lastEvent.type = "Resize"
    /\ hist.inserts >= 1 /\ hist.drawn = Drawn(buffer.data)

\* C14 (as claimed): a key press that carries Control with the char c or s,
\* whatever other flags it carries, never changes the buffer, and with c it
\* ends the loop.
C14_ControlKeysNeverInsert ==
    [][\A e \in KeyEvents :
        (Reads(e) /\ "CONTROL" \in e.modifiers /\ e.code \in {Char(99), Char(115)}) =>
            (/\ buffer' = buffer
             /\ e.code = Char(99) => pc' = "disable_raw")]_vars

\* C15: every step leaves the content as it is, appends the char of the
\* key press read, or removes the last char on a Backspace key press.
C15_OnlyAppendOrRemoveLast ==
    [][\/ buffer'.data = buffer.data
       \/ \E e \in KeyEvents :
            (/\ Reads(e) /\ e.code.kind = "Char"
             /\ buffer'.data = Append(buffer.data, e.code.c))
       \/ \E e \in BackspaceKeys :
            (/\ Reads(e) /\ buffer.data # <<>>
             /\ buffer'.data = SubSeq(buffer.data, 1, Len(buffer.data) - 1))]_vars

\* C15 witness: a Backspace removed the last char of a content that keeps
\* other chars, after an insert
C15_Witness ==
    /\ pc = "draw" /\ lastEvent \in BackspaceKeys /\ buffer.data # <<>>
    /\ hist.inserts >= 1 /\ hist.deletes >= 1

\* C16: the loop is left only by reading Quit or by a panic: from the read
\* and from the redraw the process goes to the read, the redraw, a panic,
\* or, reading Control + c, to the shutdown; while it is in the loop raw mode
\* and the alternate screen are enabled and nothing was shut down.
C16_RunningUntilQuit ==
    /\ [](pc \in {"read", "draw"} =>
            raw /\ alt /\ hist.rawDisables = 0 /\ hist.altLeaves = 0)
    /\ [][(pc \in {"read", "draw"}) =>
            (\/ pc' \in {"read", "draw", "panicked"}
             \/ Reads(QuitKey) /\ pc' = "disable_raw")]_vars

\* C16 witness: still reading after an insert, a delete-last, a save and a
\* mouse event
C16_Witness ==
    /\ pc = "read" /\ raw /\ alt /\ lastEvent.type = "Mouse"
    /\ hist.inserts >= 1 /\ hist.deletes >= 1 /\ saveHist # <<>>

\* C17: a save that returns Ok leaves the buffer unchanged and leads to one
\* redraw; the screen showed the content before it and shows the same after.
C17_SaveRedrawsSameContent ==
    /\ []((pc = "draw" /\ lastEvent = SaveKey) =>
            hist.drawn = Drawn(buffer.data) /\ screen = DrawnScreen(buffer.data))
    /\ [][(Reads(SaveKey) /\ pc' # "panicked") =>
            buffer' = buffer /\ pc' = "draw"]_vars
    /\ [][(pc = "draw" /\ lastEvent = SaveKey /\ pc' = "read") =>
            screen' = screen /\ hist'.drawn = hist.drawn]_vars

\* C17 witness: reading again after the redraw that followed a save of a
\* non-empty file-backed buffer
C17_Witness ==
    /\ pc = "read" /\ lastEvent = SaveKey /\ IsFileBacked
    /\ buffer.data # <<>> /\ saveHist # <<>> /\ LastSave.result = "Ok"

\* C18: whenever the loop waits for an event, the last completed draw was
\* a draw of the current content, the screen shows it and nothing is queued.
C18_ScreenShowsBuffer ==
    pc = "read" =>
        /\ hist.drawn = Drawn(buffer.data)
        /\ screen = DrawnScreen(buffer.data)
        /\ out = <<>>

\* C18 witness: waiting after inserts, a delete-last and an ignored event
C18_Witness ==
    /\ pc = "read" /\ lastEvent.type = "FocusGained"
    /\ hist.inserts >= 1 /\ hist.deletes >= 1 /\ buffer.data # <<>>

\* C19: raw mode is enabled only while the alternate screen is active: it
\* is enabled after the screen is entered and disabled before it is left;
\* events are read and draws are made with both enabled.
C19_ModesNested ==
    /\ [](raw => alt)
    /\ [](pc \in {"first_draw", "draw", "read"} => raw /\ alt)
    /\ [][/\ ((~raw /\ raw') => alt)
          /\ ((alt /\ ~alt') => ~raw)
          /\ ((screen' # screen \/ lastEvent' # lastEvent) => raw /\ alt)]_vars

\* C19 witness: after the loop, raw mode disabled with the alternate
\* screen still active
C19_Witness ==
    /\ pc = "leave_alt" /\ alt /\ ~raw
    /\ hist.drawn.done /\ lastEvent = QuitKey

====
